---------------------------- MODULE Spec2Model ----------------------------
(***************************************************************************)
(* Model of MethodOverrideMiddleware (src/lib.rs): a hyper Service that    *)
(* rewrites the method of a POST request from its `_method` query          *)
(* parameter and then delegates to the wrapped service.                    *)
(*                                                                         *)
(* Text is modelled as sequences of bytes (the code works on              *)
(* `query.as_bytes()`), so that splitting, `+` replacement and percent     *)
(* decoding are computed, not assumed.  Methods are modelled by their      *)
(* names: Method::POST is "POST", an extension method such as `post` is    *)
(* "post".                                                                 *)
(*                                                                         *)
(* Two specifications:                                                     *)
(*   SpecFn  one request drawn from a wide input domain is passed through  *)
(*           `call`, and the forwarded request is passed through again;    *)
(*   Spec    a service in use: readiness polls, a sequence of calls on     *)
(*           one adapter, and the wrapped service's futures completing in  *)
(*           any order.                                                    *)
(***************************************************************************)
EXTENDS Integers, Sequences, FiniteSets, TLC

VARIABLES
    input,        \* SpecFn: the drawn input (method, frame, query segments)
    calls,        \* the adapter's `call` invocations, in order
    futs,         \* the wrapped service's `call` invocations / futures, in order
    inner_ready,  \* what the wrapped service's poll_ready returns now
    last_poll     \* the last poll_ready on the adapter: what it returned and
                  \* what the wrapped service returned to it

vars == <<input, calls, futs, inner_ready, last_poll>>

---------------------------------------------------------------------------
\* Bounds of the model.

\* Most `&`-separated segments in a drawn query string.
MaxPairs == 2

\* Most `call` invocations on the adapter in one behaviour.
MaxCalls == 2

---------------------------------------------------------------------------
\* Option<T>

None == <<>>
Some(x) == <<x>>

unwrap_or(opt, default) == IF opt = None THEN default ELSE opt[1]

---------------------------------------------------------------------------
\* Byte strings.

\* "_method"
METHOD_PARAM == <<95, 109, 101, 116, 104, 111, 100>>
\* "DELETE", "PATCH", "PUT"
STR_DELETE == <<68, 69, 76, 69, 84, 69>>
STR_PATCH == <<80, 65, 84, 67, 72>>
STR_PUT == <<80, 85, 84>>

\* Index of the first occurrence of byte b in s, 0 when there is none.
IndexOf(s, b) ==
    IF \E i \in 1..Len(s) : s[i] = b
    THEN CHOOSE i \in 1..Len(s) : s[i] = b /\ \A j \in 1..(i - 1) : s[j] # b
    ELSE 0

\* slice.splitn(2, |&c| c == b): the part before the first b, and the part
\* after it (empty when there is no b).
SplitFirst(s, b) ==
    LET k == IndexOf(s, b) IN
    IF k = 0 THEN <<s, <<>>>>
    ELSE <<SubSeq(s, 1, k - 1), SubSeq(s, k + 1, Len(s))>>

\* form_urlencoded: replace_plus, every `+` (43) becomes a space (32).
replace_plus(s) == [i \in 1..Len(s) |-> IF s[i] = 43 THEN 32 ELSE s[i]]

\* char::to_digit(16) on a byte: 0-9, A-F, a-f.
IsHexDigit(b) == b \in (48..57) \cup (65..70) \cup (97..102)
HexValue(b) ==
    IF b \in 48..57 THEN b - 48
    ELSE IF b \in 65..70 THEN b - 55
    ELSE b - 87

\* percent_encoding::percent_decode: `%` (37) followed by two hex digits is
\* the byte they spell; any other `%` stays as it is.
RECURSIVE percent_decode(_)
percent_decode(s) ==
    IF s = <<>> THEN <<>>
    ELSE IF s[1] = 37 /\ Len(s) >= 3 /\ IsHexDigit(s[2]) /\ IsHexDigit(s[3])
         THEN <<16 * HexValue(s[2]) + HexValue(s[3])>>
                  \o percent_decode(SubSeq(s, 4, Len(s)))
         ELSE <<s[1]>> \o percent_decode(Tail(s))

\* String::from_utf8_lossy on the decoded bytes: ASCII bytes are themselves;
\* a byte outside ASCII that forms no valid sequence becomes U+FFFD (65533).
decode_utf8_lossy(s) == [i \in 1..Len(s) |-> IF s[i] < 128 THEN s[i] ELSE 65533]

\* form_urlencoded::decode
decode(s) == decode_utf8_lossy(percent_decode(replace_plus(s)))

\* form_urlencoded::parse(input): the (name, value) pairs of the query, in
\* order.  The input is split at `&`; an empty piece is skipped; a piece is
\* split at its first `=` (no `=`: the value is empty); both halves are
\* decoded.
RECURSIVE parse(_)
parse(query) ==
    IF query = <<>> THEN <<>>
    ELSE LET split == SplitFirst(query, 38)
             sequence == split[1]
             rest == split[2]
         IN IF sequence = <<>> THEN parse(rest)
            ELSE LET nv == SplitFirst(sequence, 61)
                 IN <<<<decode(nv[1]), decode(nv[2])>>>> \o parse(rest)

---------------------------------------------------------------------------
\* override_method

\* Iterator::find(|(param_name, _)| param_name == "_method"): the first pair
\* whose name is exactly `_method`.
find_method_lastMatch(pairs) ==
    LET hits == {i \in 1..Len(pairs) : pairs[i][1] = METHOD_PARAM} IN
    IF hits = {} THEN None
    ELSE Some(pairs[CHOOSE i \in hits : \A j \in hits : j <= i])

\* eq_ignore_ascii_case on a byte string
ascii_upper(s) == [i \in 1..Len(s) |-> IF s[i] \in 97..122 THEN s[i] - 32 ELSE s[i]]

find_method_ignoreCase(pairs) ==
    LET hits == {i \in 1..Len(pairs) : ascii_upper(pairs[i][1]) = ascii_upper(METHOD_PARAM)} IN
    IF hits = {} THEN None
    ELSE Some(pairs[CHOOSE i \in hits : \A j \in hits : i <= j])

find_method(pairs) ==
    LET hits == {i \in 1..Len(pairs) : pairs[i][1] = METHOD_PARAM} IN
    IF hits = {} THEN None
    ELSE Some(pairs[CHOOSE i \in hits : \A j \in hits : i <= j])

\* The match on the parameter's value.
match_method_swapped(value) ==
    IF value = STR_DELETE THEN Some("DELETE")
    ELSE IF value = STR_PATCH THEN Some("PUT")
    ELSE IF value = STR_PUT THEN Some("PATCH")
    ELSE None

match_method_ignoreCase(value) ==
    IF ascii_upper(value) = STR_DELETE THEN Some("DELETE")
    ELSE IF ascii_upper(value) = STR_PATCH THEN Some("PATCH")
    ELSE IF ascii_upper(value) = STR_PUT THEN Some("PUT")
    ELSE None

match_method(value) ==
    IF value = STR_DELETE THEN Some("DELETE")
    ELSE IF value = STR_PATCH THEN Some("PATCH")
    ELSE IF value = STR_PUT THEN Some("PUT")
    ELSE None

\* Option::and_then
and_then_match(found) ==
    IF found = None THEN None ELSE match_method(found[1][2])

\* override_method without its guard on the request's method.
override_method_anyMethod(req) ==
    and_then_match(find_method(parse(unwrap_or(req.query, <<>>))))

\* override_method remembering the last rewrite the adapter made and using
\* it for a POST that names no valid verb.
override_method_sticky(req) ==
    LET own == and_then_match(find_method(parse(unwrap_or(req.query, <<>>))))
        rewritten == {i \in 1..Len(calls) : futs[calls[i].fut].req.method # calls[i].orig.method}
    IN IF req.method # "POST" THEN None
       ELSE IF own = None /\ rewritten # {}
            THEN Some(futs[calls[CHOOSE i \in rewritten : \A j \in rewritten : j <= i].fut].req.method)
            ELSE own

override_method(req) ==
    IF req.method # "POST" THEN None
    ELSE and_then_match(find_method(parse(unwrap_or(req.query, <<>>))))

---------------------------------------------------------------------------
\* MethodOverrideMiddleware::call

\* The query without its first piece named `_method`.
RECURSIVE strip_method_param(_)
strip_method_param(query) ==
    IF query = <<>> THEN <<>>
    ELSE LET split == SplitFirst(query, 38)
             name == decode(SplitFirst(split[1], 61)[1])
         IN IF name = METHOD_PARAM THEN split[2]
            ELSE IF IndexOf(query, 38) = 0 THEN query
            ELSE split[1] \o <<38>> \o strip_method_param(split[2])

\* `call` that also takes the `_method` parameter it finds out of the URI,
\* whatever the request's method.
forwarded_consumeParam(req) ==
    LET new_method == override_method(req)
        q == IF req.query = None THEN None
             ELSE Some(strip_method_param(req.query[1]))
    IN IF new_method # None
       THEN [req EXCEPT !.method = new_method[1], !.query = q]
       ELSE [req EXCEPT !.query = q]

\* The request after `*req.method_mut() = new_method`, with the query
\* dropped from a rewritten request.
forwarded_dropQuery(req) ==
    LET new_method == override_method(req) IN
    IF new_method # None
    THEN [req EXCEPT !.method = new_method[1], !.query = None]
    ELSE req

\* The request `call` hands to the wrapped service.
forwarded(req) ==
    LET new_method == override_method(req) IN
    IF new_method # None THEN [req EXCEPT !.method = new_method[1]] ELSE req

\* What the caller gets from the future `call` returned when the wrapped
\* service's future completes with `outcome`: type Future is the wrapped
\* service's own future, so it is that outcome.
future_output_swallowError(outcome) ==
    IF outcome.kind = "Err" THEN [kind |-> "Ok", val |-> "default"] ELSE outcome

future_output(outcome) == outcome

\* call(req): one invocation of the wrapped service, with the forwarded
\* request; its future is what the caller holds.
Call(req) ==
    /\ Len(calls) < MaxCalls
    /\ futs' = Append(futs, [req |-> forwarded(req),
                             by |-> Len(calls) + 1,
                             state |-> [kind |-> "Running"]])
    /\ calls' = Append(calls, [orig |-> req,
                               fut |-> Len(futs) + 1,
                               got |-> [kind |-> "Running"]])
    /\ UNCHANGED <<inner_ready, last_poll>>

---------------------------------------------------------------------------
\* MethodOverrideMiddleware::poll_ready

poll_ready_alwaysReady(inner_result) == [kind |-> "Ready"]

poll_ready(inner_result) == inner_result

PollReady ==
    /\ last_poll' = [polled |-> TRUE,
                     inner |-> inner_ready,
                     ret |-> poll_ready(inner_ready)]
    /\ UNCHANGED <<input, calls, futs, inner_ready>>

---------------------------------------------------------------------------
\* The wrapped service (any Service<Request<Body>>).

ReadyResults ==
    {[kind |-> "Pending"], [kind |-> "Ready"], [kind |-> "Err", val |-> "E1"]}

\* What a completed future of the wrapped service yields: the tests'
\* handler answers with the method it saw; another one may fail.
Outcomes(req) ==
    {[kind |-> "Ok", val |-> req.method], [kind |-> "Err", val |-> "E1"]}

\* The wrapped service's readiness changes on its own.
InnerReadyChange ==
    /\ \E r \in ReadyResults : r # inner_ready /\ inner_ready' = r
    /\ UNCHANGED <<input, calls, futs, last_poll>>

\* Future f of the wrapped service completes; whoever holds it gets its
\* output.
Resolve(f) ==
    /\ f \in 1..Len(futs)
    /\ futs[f].state.kind = "Running"
    /\ \E o \in Outcomes(futs[f].req) :
          /\ futs' = [futs EXCEPT ![f].state = o]
          /\ calls' = [c \in 1..Len(calls) |->
                          IF calls[c].fut = f
                          THEN [calls[c] EXCEPT !.got = future_output(o)]
                          ELSE calls[c]]
    /\ UNCHANGED <<input, inner_ready, last_poll>>

---------------------------------------------------------------------------
\* Requests.

\* The parts of a request the adapter does not read.  The second carries
\* override hints in a header and in the body, which this adapter ignores.
Frames ==
    {[path |-> "/", headers |-> <<>>, body |-> ""],
     [path |-> "/item/1",
      headers |-> <<<<"x-http-method-override", "DELETE">>>>,
      body |-> "_method=DELETE"]}

Methods == {"GET", "POST", "PUT", "PATCH", "DELETE", "OPTIONS", "post"}

\* The pieces a query string is put together from: the text as sent, and
\* what it denotes as a URL-encoded parameter (param FALSE: no parameter).
Segments == <<
    \* _method=PUT
    [raw |-> <<95, 109, 101, 116, 104, 111, 100, 61, 80, 85, 84>>,
     param |-> TRUE, name |-> "_method", value |-> "PUT"],
    \* _method=PATCH
    [raw |-> <<95, 109, 101, 116, 104, 111, 100, 61, 80, 65, 84, 67, 72>>,
     param |-> TRUE, name |-> "_method", value |-> "PATCH"],
    \* _method=DELETE
    [raw |-> <<95, 109, 101, 116, 104, 111, 100, 61, 68, 69, 76, 69, 84, 69>>,
     param |-> TRUE, name |-> "_method", value |-> "DELETE"],
    \* _method=GET
    [raw |-> <<95, 109, 101, 116, 104, 111, 100, 61, 71, 69, 84>>,
     param |-> TRUE, name |-> "_method", value |-> "GET"],
    \* _method=put
    [raw |-> <<95, 109, 101, 116, 104, 111, 100, 61, 112, 117, 116>>,
     param |-> TRUE, name |-> "_method", value |-> "put"],
    \* _method        (no `=`: the value is empty)
    [raw |-> <<95, 109, 101, 116, 104, 111, 100>>,
     param |-> TRUE, name |-> "_method", value |-> ""],
    \* _METHOD=PUT
    [raw |-> <<95, 77, 69, 84, 72, 79, 68, 61, 80, 85, 84>>,
     param |-> TRUE, name |-> "_METHOD", value |-> "PUT"],
    \* a=1
    [raw |-> <<97, 61, 49>>,
     param |-> TRUE, name |-> "a", value |-> "1"],
    \* the empty piece, as between the two `&` of a=1&&b=2
    [raw |-> <<>>,
     param |-> FALSE, name |-> "", value |-> ""],
    \* %5Fmethod=P%55T   (percent-encoded _method=PUT)
    [raw |-> <<37, 53, 70, 109, 101, 116, 104, 111, 100, 61, 80, 37, 53, 53, 84>>,
     param |-> TRUE, name |-> "_method", value |-> "PUT"],
    \* _method=PUT+      (`+` is a space: the value is "PUT ")
    [raw |-> <<95, 109, 101, 116, 104, 111, 100, 61, 80, 85, 84, 43>>,
     param |-> TRUE, name |-> "_method", value |-> "PUT "],
    \* _method=%zz       (a malformed escape: the value is "%zz")
    [raw |-> <<95, 109, 101, 116, 104, 111, 100, 61, 37, 122, 122>>,
     param |-> TRUE, name |-> "_method", value |-> "%zz"],
    \* _method=Put
    [raw |-> <<95, 109, 101, 116, 104, 111, 100, 61, 80, 117, 116>>,
     param |-> TRUE, name |-> "_method", value |-> "Put"],
    \* _method=OPTIONS
    [raw |-> <<95, 109, 101, 116, 104, 111, 100, 61, 79, 80, 84, 73, 79, 78, 83>>,
     param |-> TRUE, name |-> "_method", value |-> "OPTIONS"],
    \* _method=POST
    [raw |-> <<95, 109, 101, 116, 104, 111, 100, 61, 80, 79, 83, 84>>,
     param |-> TRUE, name |-> "_method", value |-> "POST"],
    \* _method=PUT=1    (split at the first `=`: the value is "PUT=1")
    [raw |-> <<95, 109, 101, 116, 104, 111, 100, 61, 80, 85, 84, 61, 49>>,
     param |-> TRUE, name |-> "_method", value |-> "PUT=1"],
    \* =DELETE          (the name is empty)
    [raw |-> <<61, 68, 69, 76, 69, 84, 69>>,
     param |-> TRUE, name |-> "", value |-> "DELETE"]
>>

SegIds == 1..Len(Segments)

\* The sequences over S of length at most n.
SeqsUpTo(S, n) == UNION {[1..k -> S] : k \in 0..n}

\* The pieces joined by `&` (38).
RECURSIVE Join(_)
Join(segs) ==
    IF segs = <<>> THEN <<>>
    ELSE IF Len(segs) = 1 THEN Segments[segs[1]].raw
    ELSE Segments[segs[1]].raw \o <<38>> \o Join(Tail(segs))

\* An input: a method, a frame, and either no query component at all
\* (hasQuery FALSE) or one made of the pieces `segs`.
Inputs ==
    {[method |-> m, frame |-> f, hasQuery |-> FALSE, segs |-> <<>>] :
        m \in Methods, f \in Frames}
    \cup
    {[method |-> m, frame |-> f, hasQuery |-> TRUE, segs |-> s] :
        m \in Methods, f \in Frames, s \in SeqsUpTo(SegIds, MaxPairs)}

\* The hyper Request of an input; req.query is Uri::query().
Request(in) ==
    [method |-> in.method,
     path |-> in.frame.path,
     query |-> IF in.hasQuery THEN Some(Join(in.segs)) ELSE None,
     headers |-> in.frame.headers,
     body |-> in.frame.body]

NoInput == [method |-> "GET", frame |-> CHOOSE f \in Frames : f.path = "/",
            hasQuery |-> FALSE, segs |-> <<>>]

\* The requests sent to the service in use (Spec), each with the method
\* the wrapped service sees when the request is the only one handled.
ServiceTable ==
    LET f1 == CHOOSE f \in Frames : f.path = "/"
        f2 == CHOOSE f \in Frames : f.path = "/item/1"
    IN {[in |-> [method |-> "POST", frame |-> f1, hasQuery |-> FALSE, segs |-> <<>>],
         alone |-> "POST"],
        [in |-> [method |-> "POST", frame |-> f2, hasQuery |-> TRUE, segs |-> <<8, 1>>],
         alone |-> "PUT"],
        [in |-> [method |-> "POST", frame |-> f1, hasQuery |-> TRUE, segs |-> <<3>>],
         alone |-> "DELETE"],
        [in |-> [method |-> "POST", frame |-> f1, hasQuery |-> TRUE, segs |-> <<4>>],
         alone |-> "POST"],
        [in |-> [method |-> "GET", frame |-> f2, hasQuery |-> TRUE, segs |-> <<2>>],
         alone |-> "GET"]}

ServiceRequests == {Request(e.in) : e \in ServiceTable}

---------------------------------------------------------------------------
\* Spec: the service in use.

Init ==
    /\ input = NoInput
    /\ calls = <<>>
    /\ futs = <<>>
    /\ inner_ready \in ReadyResults
    /\ last_poll = [polled |-> FALSE, inner |-> [kind |-> "Pending"],
                    ret |-> [kind |-> "Pending"]]

CallRequest ==
    /\ \E req \in ServiceRequests : Call(req)
    /\ UNCHANGED input

ResolveSome == \E f \in 1..Len(futs) : Resolve(f)

Next ==
    \/ PollReady
    \/ InnerReadyChange
    \/ CallRequest
    \/ ResolveSome

Spec == Init /\ [][Next]_vars

---------------------------------------------------------------------------
\* SpecFn: one input through `call`, and its forwarded request through
\* `call` again.

InitFn ==
    /\ input \in Inputs
    /\ calls = <<>>
    /\ futs = <<>>
    /\ inner_ready = [kind |-> "Ready"]
    /\ last_poll = [polled |-> FALSE, inner |-> [kind |-> "Pending"],
                    ret |-> [kind |-> "Pending"]]

CallInput ==
    /\ Len(calls) = 0
    /\ Call(Request(input))
    /\ UNCHANGED input

Reapply ==
    /\ Len(calls) = 1
    /\ Call(futs[calls[1].fut].req)
    /\ UNCHANGED input

NextFn ==
    \/ CallInput
    \/ Reapply

SpecFn == InitFn /\ [][NextFn]_vars

---------------------------------------------------------------------------
\* What the properties are stated in.

\* The override verbs.
Verbs == {"PUT", "PATCH", "DELETE"}

\* The request the wrapped service received in the invocation made by the
\* adapter's c-th call.
Observed(c) == futs[CHOOSE j \in 1..Len(futs) : futs[j].by = c].req

\* The parameters the query of an input denotes, in query-string order.
Params(in) ==
    IF in.hasQuery
    THEN SelectSeq([i \in 1..Len(in.segs) |-> Segments[in.segs[i]]],
                   LAMBDA p : p.param)
    ELSE <<>>

\* Those named exactly `_method`.
MethodParams(in) == SelectSeq(Params(in), LAMBDA p : p.name = "_method")

\* The input has been through `call`.
Handled == Len(calls) >= 1 /\ calls[1].orig = Request(input)

---------------------------------------------------------------------------
\* Properties of SpecFn.

\* C1: a request whose method is not POST reaches the wrapped service with
\* its original method, whatever its query string says.
C1_NonPostKept ==
    \A c \in 1..Len(calls) :
        calls[c].orig.method # "POST"
            => Observed(c).method = calls[c].orig.method

\* A GET whose query asks for PATCH has been handled.
C1_Witness ==
    /\ Handled
    /\ input.method = "GET"
    /\ MethodParams(input) # <<>>
    /\ MethodParams(input)[1].value = "PATCH"

\* C2: a POST whose first `_method` parameter is PUT, PATCH or DELETE
\* reaches the wrapped service with that method, whatever other parameters
\* come before or after it.
C2_ValidVerbApplied ==
    (/\ Handled
     /\ input.method = "POST"
     /\ MethodParams(input) # <<>>
     /\ MethodParams(input)[1].value \in Verbs)
        => Observed(1).method = MethodParams(input)[1].value

\* A POST with an unrelated parameter before `_method=PATCH` has been
\* handled.
C2_Witness ==
    /\ Handled
    /\ input.method = "POST"
    /\ Len(Params(input)) = 2
    /\ Params(input)[1].name = "a"
    /\ Params(input)[2].name = "_method"
    /\ Params(input)[2].value = "PATCH"

\* C3: a POST whose `_method` parameter has a value other than exactly PUT,
\* PATCH or DELETE reaches the wrapped service as POST.
C3_OtherValueIgnored ==
    (/\ Handled
     /\ input.method = "POST"
     /\ MethodParams(input) # <<>>
     /\ MethodParams(input)[1].value \notin Verbs)
        => Observed(1).method = "POST"

\* A POST asking for lowercase `put` has been handled.
C3_Witness ==
    /\ Handled
    /\ input.method = "POST"
    /\ MethodParams(input) # <<>>
    /\ MethodParams(input)[1].value = "put"

\* C4: a POST with no parameter named exactly `_method` (no query, an empty
\* query, empty pieces, other names such as `_METHOD`) is handled without
\* failing: the wrapped service is invoked and sees POST.
C4_NoParamKeepsPost ==
    (/\ Handled
     /\ input.method = "POST"
     /\ MethodParams(input) = <<>>)
        => /\ \E j \in 1..Len(futs) : futs[j].by = 1
           /\ Observed(1).method = "POST"

\* A POST whose only parameter is `_METHOD=PUT` has been handled.
C4_Witness ==
    /\ Handled
    /\ input.method = "POST"
    /\ Len(Params(input)) = 1
    /\ Params(input)[1].name = "_METHOD"
    /\ Params(input)[1].value = "PUT"

\* C5: when `_method` occurs several times in a POST's query, the first
\* occurrence alone decides: a valid verb there is used, anything else
\* there leaves POST, whatever the later occurrences say.
C5_FirstOccurrenceWins ==
    (/\ Handled
     /\ input.method = "POST"
     /\ Len(MethodParams(input)) >= 2)
        => Observed(1).method =
              IF MethodParams(input)[1].value \in Verbs
              THEN MethodParams(input)[1].value
              ELSE "POST"

\* A POST with an invalid first `_method` and a valid second one has been
\* handled.
C5_Witness ==
    /\ Handled
    /\ input.method = "POST"
    /\ Len(MethodParams(input)) >= 2
    /\ MethodParams(input)[1].value \notin Verbs
    /\ MethodParams(input)[2].value \in Verbs

\* C6: the wrapped service receives the incoming request with at most its
\* method changed (same path, query, headers, body), and the method is
\* changed only for a POST whose first `_method` parameter is a valid verb.
C6_OnlyMethodChanges ==
    \A c \in 1..Len(calls) :
        LET r == calls[c].orig
            o == Observed(c)
        IN /\ o.path = r.path
           /\ o.query = r.query
           /\ o.headers = r.headers
           /\ o.body = r.body
           /\ o.method # r.method
                => /\ r.method = "POST"
                   /\ r.query = Request(input).query
                   /\ MethodParams(input) # <<>>
                   /\ MethodParams(input)[1].value \in Verbs

\* A rewritten POST that carries a header, a body and a query has been
\* forwarded.
C6_Witness ==
    /\ Handled
    /\ Observed(1).method # calls[1].orig.method
    /\ Observed(1).headers # <<>>
    /\ Observed(1).body # ""
    /\ Len(Params(input)) = 2

\* C7: passing the forwarded request through the adapter again forwards it
\* with no change.
C7_Idempotent ==
    Len(calls) = 2 /\ calls[2].orig = Observed(1)
        => Observed(2) = Observed(1)

\* A POST rewritten to a verb has been passed through a second time.
C7_Witness ==
    /\ Handled
    /\ Len(calls) = 2
    /\ calls[2].orig = Observed(1)
    /\ calls[1].orig.method = "POST"
    /\ calls[2].orig.method \in Verbs
    /\ \E j \in 1..Len(futs) : futs[j].by = 2

---------------------------------------------------------------------------
\* Properties of Spec.

\* C8: every call invokes the wrapped service exactly once, with the
\* request it forwards, and the caller's outcome is that invocation's
\* outcome, response or error alike.
C8_OneInvocationSameOutcome ==
    /\ Len(futs) = Len(calls)
    /\ \A c \in 1..Len(calls) :
          /\ Cardinality({j \in 1..Len(futs) : futs[j].by = c}) = 1
          /\ futs[calls[c].fut].by = c
          /\ calls[c].got = futs[calls[c].fut].state

\* One caller has got an error and another, whose POST was rewritten, a
\* response.
C8_Witness ==
    \E c, d \in 1..Len(calls) :
        /\ calls[c].got.kind = "Err"
        /\ calls[d].got.kind = "Ok"
        /\ Observed(d).method # calls[d].orig.method

\* C9: the adapter's poll_ready returns what the wrapped service's
\* poll_ready returned, and a poll neither invokes the wrapped service's
\* call nor touches a request.
C9_PollReadyDelegates ==
    /\ [](last_poll.polled => last_poll.ret = last_poll.inner)
    /\ [][last_poll' # last_poll => calls' = calls /\ futs' = futs]_vars

\* The adapter has been polled after a call and returned the wrapped
\* service's error.
C9_Witness ==
    /\ last_poll.polled
    /\ last_poll.ret = [kind |-> "Err", val |-> "E1"]
    /\ Len(calls) >= 1

\* The method the wrapped service sees for a request handled alone.
AloneMethod(req) == (CHOOSE e \in ServiceTable : Request(e.in) = req).alone

\* C10: for any sequence of calls, with the wrapped service's futures
\* completing in any order, each request is forwarded as it is when handled
\* alone, and equal requests are forwarded equally.
C10_Stateless ==
    /\ \A c \in 1..Len(calls) :
          Observed(c) = [calls[c].orig EXCEPT !.method = AloneMethod(calls[c].orig)]
    /\ \A c, d \in 1..Len(calls) :
          calls[c].orig = calls[d].orig => Observed(c) = Observed(d)

\* A plain POST was handled after a rewritten POST, and completed before
\* it.
C10_Witness ==
    /\ Len(calls) = 2
    /\ Observed(1).method # calls[1].orig.method
    /\ calls[2].orig.method = "POST"
    /\ calls[2].orig.query = None
    /\ calls[1].got.kind = "Running"
    /\ calls[2].got.kind = "Ok"

===========================================================================
